---- MODULE Spec2Model ----
(***************************************************************************)
(* Model of market_digest.py: a batch job that reads a list of feed URLs,  *)
(* fetches and deduplicates feed entries, asks a model endpoint for a      *)
(* digest of themes and writes one database row per theme.                 *)
(*                                                                         *)
(* Strings whose characters matter (file content, lines, URLs, titles) are *)
(* sequences of Unicode code points; links are compared only for equality  *)
(* and emptiness and are plain strings.  An absent attribute of a feed     *)
(* entry, or an unset environment variable, is a name missing from the     *)
(* DOMAIN of the record.                                                   *)
(***************************************************************************)
EXTENDS Integers, Sequences, FiniteSets, TLC

VARIABLES
    pc,            \* position of the process
    environ,       \* the three secrets as found in the environment
    MAX_ARTICLES,  \* int(os.getenv("MAX_ARTICLES", "12"))
    MAX_THEMES,    \* int(os.getenv("MAX_THEMES", "4"))
    fileContent,   \* content of config_sources.txt as read
    fileReads,     \* number of times the source file was opened
    feeds,         \* main: feeds
    parsed,        \* what feedparser.parse returned, one element per call
    raised,        \* positions in feeds at which feedparser.parse raised
    items,         \* fetch_rss_items: items (before deduplication)
    deduped,       \* value returned by fetch_rss_items
    selected,      \* value returned by pick_top_items
    modelCalls,    \* item sequences passed to the model endpoint
    digest,        \* themes of the digest returned by json.loads
    posts,         \* create-row requests sent, with the status answered
    rows,          \* rows present in the database
    created,       \* main: created
    stdout,        \* lines printed
    error,         \* uncaught exception ending the process, or "none"
    exitCode       \* exit code, meaningful once pc = "exited"

vars == <<pc, environ, MAX_ARTICLES, MAX_THEMES, fileContent, fileReads,
          feeds, parsed, raised, items, deduped, selected, modelCalls,
          digest, posts, rows, created, stdout, error, exitCode>>

-----------------------------------------------------------------------------
(* Bounds *)

MaxFileLen == 6      \* characters of a source file (SpecSources)
MaxTail == 2         \* entries of a feed after its filler entries (SpecFetch)
MaxPickLen == 3      \* items handed to pick_top_items (SpecPick)
MaxCap == 4          \* largest |max_n| handed to pick_top_items (SpecPick)
MaxFeeds == 2        \* feed URLs of a run of the pipeline (Spec)

-----------------------------------------------------------------------------
(* Python helpers *)

\* the characters str.strip() removes: those of str.isspace()
\*   \t \n \v \f \r, FS GS RS US, space, NEL, NBSP, and the Unicode spaces
Whitespace ==
    {9, 10, 11, 12, 13, 28, 29, 30, 31, 32, 133, 160, 5760}
        \cup (8192..8202) \cup {8232, 8233, 8239, 8287, 12288}

Min(a, b) == IF a < b THEN a ELSE b
Max(a, b) == IF a > b THEN a ELSE b

\* s[:n] for a Python sequence s and an int n of either sign
SliceTo(s, n) ==
    IF n >= 0 THEN SubSeq(s, 1, Min(n, Len(s)))
    ELSE SubSeq(s, 1, Max(0, Len(s) + n))

RECURSIVE LStrip(_)
LStrip(s) ==
    IF s # <<>> /\ Head(s) \in Whitespace THEN LStrip(Tail(s)) ELSE s

RECURSIVE RStrip(_)
RStrip(s) ==
    IF s # <<>> /\ s[Len(s)] \in Whitespace
    THEN RStrip(SubSeq(s, 1, Len(s) - 1)) ELSE s

\* str.strip()
Strip(s) == LStrip(RStrip(s))

\* str.startswith(c) for a one-character prefix
StartsWith(s, c) == s # <<>> /\ Head(s) = c

\* open(path, "r"): universal newlines, "\r\n" and "\r" are read as "\n"
RECURSIVE ReadText(_)
ReadText(raw) ==
    IF raw = <<>> THEN <<>>
    ELSE IF Head(raw) = 13
         THEN IF Len(raw) >= 2 /\ raw[2] = 10
              THEN <<10>> \o ReadText(Tail(Tail(raw)))
              ELSE <<10>> \o ReadText(Tail(raw))
         ELSE <<Head(raw)>> \o ReadText(Tail(raw))

\* the lines of a text, each with its "\n" terminator
RECURSIVE SplitLines(_)
SplitLines(text) ==
    IF text = <<>> THEN <<>>
    ELSE LET nl == {i \in DOMAIN text : text[i] = 10}
         IN IF nl = {} THEN <<text>>
            ELSE LET i == CHOOSE k \in nl : \A j \in nl : k <= j
                 IN <<SubSeq(text, 1, i)>>
                      \o SplitLines(SubSeq(text, i + 1, Len(text)))

\* iteration over the text file whose bytes decode to content
FileLines(content) == SplitLines(ReadText(content))

-----------------------------------------------------------------------------
(* read_sources *)

\* the comment test made on the line before trimming
KeepLineNoStrip(line) ==
    Strip(line) # <<>> /\ ~StartsWith(line, 35)

\* the filter of the list comprehension ("#" is 35)
KeepLine(line) ==
    Strip(line) # <<>> /\ ~StartsWith(Strip(line), 35)

RECURSIVE SourcesOf(_)
SourcesOf(lines) ==
    IF lines = <<>> THEN <<>>
    ELSE IF KeepLine(Head(lines))
         THEN <<Strip(Head(lines))>> \o SourcesOf(Tail(lines))
         ELSE SourcesOf(Tail(lines))

read_sources(content) == SourcesOf(FileLines(content))

-----------------------------------------------------------------------------
(* fetch_rss_items *)

\* parsed.entries[:25]
EntryCap == 25

\* "link is None" written for "not link"
LinkMissingOnlyNone(e) == "link" \notin DOMAIN e

\* link = getattr(e, "link", None);  "not link" is true of None and of ""
LinkMissing(e) == "link" \notin DOMAIN e \/ e.link = ""

\* title = getattr(e, "title", "").strip()
TitleOf(e) == IF "title" \in DOMAIN e THEN Strip(e.title) ELSE <<>>

\* if not link or not title: continue
Skipped(e) == LinkMissing(e) \/ TitleOf(e) = <<>>

\* the dict appended to items; summary and published are carried along
\* unread by the rest of the program and are left out
ItemOf(url, e) == [source_feed |-> url, title |-> TitleOf(e), link |-> e.link]

RECURSIVE AppendEntries(_, _, _)
AppendEntries(acc, url, entries) ==
    IF entries = <<>> THEN acc
    ELSE AppendEntries(
             IF Skipped(Head(entries)) THEN acc
             ELSE Append(acc, ItemOf(url, Head(entries))),
             url, Tail(entries))

\* body of the loop over feed_urls: one feed's entries appended to items
AfterFeed(acc, url, entries) ==
    AppendEntries(acc, url, SliceTo(entries, EntryCap))

\* deduplication that keeps the last item of each link
RECURSIVE DedupeKeepLast(_)
DedupeKeepLast(its) ==
    IF its = <<>> THEN <<>>
    ELSE IF \E k \in 2..Len(its) : its[k].link = Head(its).link
         THEN DedupeKeepLast(Tail(its))
         ELSE <<Head(its)>> \o DedupeKeepLast(Tail(its))

RECURSIVE DedupeFrom(_, _, _)
DedupeFrom(its, seen, out) ==
    IF its = <<>> THEN out
    ELSE IF Head(its).link \in seen
         THEN DedupeFrom(Tail(its), seen, out)
         ELSE DedupeFrom(Tail(its), seen \cup {Head(its).link},
                         Append(out, Head(its)))

\* "Deduplicate by link"
Dedupe(its) == DedupeFrom(its, {}, <<>>)

RECURSIVE CollectItems(_, _, _)
CollectItems(acc, urls, results) ==
    IF urls = <<>> THEN acc
    ELSE CollectItems(AfterFeed(acc, Head(urls), Head(results)),
                      Tail(urls), Tail(results))

\* fetch_rss_items(feed_urls) when feedparser.parse returns results[i] for
\* feed_urls[i]
fetch_rss_items(urls, results) == Dedupe(CollectItems(<<>>, urls, results))

-----------------------------------------------------------------------------
(* pick_top_items *)

\* items[-max_n:] written for items[:max_n]
PickLast(its, max_n) ==
    IF max_n > 0 THEN SubSeq(its, Max(1, Len(its) - max_n + 1), Len(its))
    ELSE SubSeq(its, Min(Len(its), -max_n) + 1, Len(its))

pick_top_items(its, max_n) == SliceTo(its, max_n)

-----------------------------------------------------------------------------
(* Inputs *)

SecretNames == {"NOTION_TOKEN", "NOTION_DATABASE_ID", "OPENAI_API_KEY"}

\* each secret unset, set to the empty string, or set
Environs == UNION {[D -> {"", "secret"}] : D \in SUBSET SecretNames}

AllSet == [n \in SecretNames |-> "secret"]

\* values of MAX_ARTICLES and MAX_THEMES in a run (12 and 4 are the defaults)
ArticleCaps == {-1, 0, 1, 12}
ThemeCaps == {1, 4}

SeqsUpTo(S, n) == UNION {[1..k -> S] : k \in 0..n}

RECURSIVE Repeat(_, _)
Repeat(s, k) == IF k = 0 THEN <<>> ELSE s \o Repeat(s, k - 1)

\* space, "#", "u", "\n", "\r", "\f"
FileAlphabet == {32, 35, 117, 10, 13, 12}
AllContents == SeqsUpTo(FileAlphabet, MaxFileLen)

\* the URLs "u" and "v"
U1 == <<117>>
U2 == <<118>>

RECURSIVE UrlLines(_)
UrlLines(k) ==
    IF k = 0 THEN <<>>
    ELSE UrlLines(k - 1) \o (IF k % 2 = 1 THEN U1 \o <<10>> ELSE <<32>> \o U2 \o <<10>>)

\* source files of a run: k URL lines, or nothing but a comment and a blank line
RunContents ==
    {UrlLines(k) : k \in 0..MaxFeeds} \cup {<<35, 117, 10, 32, 10>>}

\* titles "T", NBSP "S" "\r", space "\f", "F"
EaT == [link |-> "a", title |-> <<84>>]
EaS == [link |-> "a", title |-> <<160, 83, 13>>]
EbT == [link |-> "b", title |-> <<84>>]
EbBlank == [link |-> "b", title |-> <<32, 12>>]
EbNoTitle == [link |-> "b"]
ENoLink == [title |-> <<84>>]
EEmptyLink == [link |-> "", title |-> <<84>>]
Filler == [link |-> "f", title |-> <<70>>]

AllEntries == {EaT, EaS, EbT, EbBlank, EbNoTitle, ENoLink, EEmptyLink}

\* feeds of EntryCap + 1 entries: the last but one is the last one read
LongFeeds ==
    {Repeat(<<Filler>>, EntryCap - 1) \o <<x, y>> :
        x \in AllEntries, y \in AllEntries}

\* a feed: up to MaxTail entries, or a long feed
AllFeedResults == SeqsUpTo(AllEntries, MaxTail) \cup LongFeeds

\* feeds of a run of the pipeline
RunFeedResults ==
    {<<>>, <<EaT>>, <<EaT, EbT>>, <<EbBlank, ENoLink>>, <<EaS, EEmptyLink>>}

PickItems ==
    {ItemOf(U1, EaT), ItemOf(U2, EaS), ItemOf(U1, EbT)}

\* HTTP statuses answered by the database endpoint
Statuses == {200, 299, 300, 400}

\* the themes of an answer of the model endpoint, each identified by its
\* position; an answer holds up to one theme more than MAX_THEMES
Themes(n) == [k \in 1..n |-> k]

-----------------------------------------------------------------------------
(* The process *)

NoError == [type |-> "none"]

MissingSecrets ==
    [type |-> "SystemExit",
     msg |-> "Missing one of: NOTION_TOKEN, NOTION_DATABASE_ID, OPENAI_API_KEY"]

NoItemsLine == [text |-> "No RSS items found."]

CreatedLine(n, asOf) == [text |-> "Created", pages |-> n, as_of |-> asOf]

InitWith(p, env, maxArticles, maxThemes) ==
    /\ pc = p
    /\ environ = env
    /\ MAX_ARTICLES = maxArticles
    /\ MAX_THEMES = maxThemes
    /\ fileContent = <<>>
    /\ fileReads = 0
    /\ feeds = <<>>
    /\ parsed = <<>>
    /\ raised = {}
    /\ items = <<>>
    /\ deduped = <<>>
    /\ selected = <<>>
    /\ modelCalls = <<>>
    /\ digest = [as_of |-> "", themes |-> <<>>]
    /\ posts = <<>>
    /\ rows = <<>>
    /\ created = 0
    /\ stdout = <<>>
    /\ error = NoError
    /\ exitCode = 0

Init ==
    \E env \in Environs, a \in ArticleCaps, t \in ThemeCaps :
        InitWith("import", env, a, t)

\* an uncaught exception, or SystemExit with a message: exit code 1
Abort(err) ==
    /\ pc' = "exited"
    /\ error' = err
    /\ exitCode' = 1

\* "is None" written for "not": an empty secret passes
SecretCheckNoneOnly(env) == \A n \in SecretNames : n \in DOMAIN env

\* not (not NOTION_TOKEN or not NOTION_DATABASE_ID or not OPENAI_API_KEY)
SecretsPresent(env) ==
    \A n \in SecretNames : n \in DOMAIN env /\ env[n] # ""

\* module level: the secret check
Import ==
    /\ pc = "import"
    /\ IF SecretsPresent(environ)
       THEN pc' = "read_sources" /\ UNCHANGED <<error, exitCode>>
       ELSE Abort(MissingSecrets)
    /\ UNCHANGED <<environ, MAX_ARTICLES, MAX_THEMES, fileContent, fileReads,
                   feeds, parsed, raised, items, deduped, selected, modelCalls,
                   digest, posts, rows, created, stdout>>

\* feeds = read_sources(), the file holding one of the contents
ReadSourcesFrom(contents) ==
    /\ pc = "read_sources"
    /\ fileReads' = fileReads + 1
    /\ \/ /\ Abort([type |-> "FileNotFoundError"])
          /\ UNCHANGED <<fileContent, feeds>>
       \/ \E c \in contents :
            /\ fileContent' = c
            /\ feeds' = read_sources(c)
            /\ pc' = "fetch_rss_items"
            /\ UNCHANGED <<error, exitCode>>
    /\ UNCHANGED <<environ, MAX_ARTICLES, MAX_THEMES, parsed, raised, items, deduped,
                   selected, modelCalls, digest, posts, rows, created, stdout>>

ReadSources == ReadSourcesFrom(RunContents)

\* feedparser.parse(url) raises inside the loop, and a handler swallows it
FeedFailureCaught ==
    /\ pc = "fetch_rss_items"
    /\ Len(parsed) < Len(feeds)
    /\ parsed' = Append(parsed, <<>>)
    /\ raised' = raised \cup {Len(parsed) + 1}
    /\ UNCHANGED <<pc, error, exitCode>>
    /\ UNCHANGED <<environ, MAX_ARTICLES, MAX_THEMES, fileContent, fileReads,
                   feeds, items, deduped, selected, modelCalls, digest, posts,
                   rows, created, stdout>>

\* fetch_rss_items: feedparser.parse(url) raises; nothing catches it
FeedFailure ==
    /\ pc = "fetch_rss_items"
    /\ Len(parsed) < Len(feeds)
    /\ parsed' = Append(parsed, <<>>)
    /\ raised' = raised \cup {Len(parsed) + 1}
    /\ Abort([type |-> "FeedError", feed |-> Len(parsed) + 1])
    /\ UNCHANGED <<environ, MAX_ARTICLES, MAX_THEMES, fileContent, fileReads,
                   feeds, items, deduped, selected, modelCalls, digest, posts,
                   rows, created, stdout>>

\* fetch_rss_items: one iteration of the loop over feed_urls, the feed
\* holding one of the results
FetchFeedFrom(results) ==
    /\ pc = "fetch_rss_items"
    /\ Len(parsed) < Len(feeds)
    /\ \E entries \in results :
        /\ parsed' = Append(parsed, entries)
        /\ items' = AfterFeed(items, feeds[Len(parsed) + 1], entries)
    /\ UNCHANGED <<raised, pc, environ, MAX_ARTICLES, MAX_THEMES, fileContent,
                   fileReads, feeds, deduped, selected, modelCalls, digest,
                   posts, rows, created, stdout, error, exitCode>>

FetchFeed == FetchFeedFrom(RunFeedResults)

\* "items is None" written for "not items"
NoItemsNever(its) == FALSE

\* if not items
NoItems(its) == its = <<>>

\* fetch_rss_items deduplicates and returns; main leaves on an empty result
\* and otherwise selects the items for the model
FetchReturn ==
    /\ pc = "fetch_rss_items"
    /\ Len(parsed) = Len(feeds)
    /\ deduped' = Dedupe(items)
    /\ IF NoItems(deduped')
       THEN /\ stdout' = Append(stdout, NoItemsLine)
            /\ pc' = "exited"
            /\ exitCode' = 0
            /\ UNCHANGED selected
       ELSE /\ selected' = pick_top_items(deduped', MAX_ARTICLES)
            /\ pc' = "call_model"
            /\ UNCHANGED <<stdout, exitCode>>
    /\ UNCHANGED <<environ, MAX_ARTICLES, MAX_THEMES, fileContent, fileReads,
                   feeds, parsed, raised, items, modelCalls, digest, posts, rows,
                   created, error>>

\* call_openai_to_extract_themes: the request, then json.loads of the answer;
\* the parsed answer is returned as it is, whatever the length of its themes
CallModel ==
    /\ pc = "call_model"
    /\ modelCalls' = Append(modelCalls, selected)
    /\ \/ /\ Abort([type |-> "APIError"])
          /\ UNCHANGED <<digest, created>>
       \/ /\ Abort([type |-> "JSONDecodeError"])
          /\ UNCHANGED <<digest, created>>
       \/ \E n \in 0..(MAX_THEMES + 1) :
            /\ digest' = [as_of |-> "today", themes |-> Themes(n)]
            /\ pc' = "publish"
            /\ created' = 0
            /\ UNCHANGED <<error, exitCode>>
    /\ UNCHANGED <<environ, MAX_ARTICLES, MAX_THEMES, fileContent, fileReads,
                   feeds, parsed, raised, items, deduped, selected, posts, rows,
                   stdout>>

\* "> 300" written for ">= 300"
StatusFailsAbove300(status) == status > 300

\* if r.status_code >= 300
StatusFails(status) == status >= 300

\* one iteration of the loop over digest["themes"]: notion_create_page
Publish ==
    /\ pc = "publish"
    /\ created < Len(digest.themes)
    /\ LET t == digest.themes[created + 1] IN
       \/ \E status \in Statuses :
            /\ posts' = Append(posts, [theme |-> t, answered |-> TRUE,
                                       status |-> status])
            /\ IF StatusFails(status)
               THEN /\ Abort([type |-> "RuntimeError", status |-> status])
                    /\ UNCHANGED <<rows, created>>
               ELSE /\ rows' = Append(rows, t)
                    /\ created' = created + 1
                    /\ UNCHANGED <<pc, error, exitCode>>
       \/ \* requests.post raises (timeout=30); the row may have been written
          /\ posts' = Append(posts, [theme |-> t, answered |-> FALSE,
                                     status |-> 0])
          /\ Abort([type |-> "RequestException"])
          /\ rows' \in {rows, Append(rows, t)}
          /\ UNCHANGED created
    /\ UNCHANGED <<environ, MAX_ARTICLES, MAX_THEMES, fileContent, fileReads,
                   feeds, parsed, raised, items, deduped, selected, modelCalls,
                   digest, stdout>>

\* print(f"Created {created} Notion pages for {digest['as_of']}")
Finish ==
    /\ pc = "publish"
    /\ created = Len(digest.themes)
    /\ stdout' = Append(stdout, CreatedLine(created, digest.as_of))
    /\ pc' = "exited"
    /\ exitCode' = 0
    /\ UNCHANGED <<environ, MAX_ARTICLES, MAX_THEMES, fileContent, fileReads,
                   feeds, parsed, raised, items, deduped, selected, modelCalls,
                   digest, posts, rows, created, error>>

Next ==
    \/ Import
    \/ ReadSources
    \/ FeedFailure
    \/ FetchFeed
    \/ FetchReturn
    \/ CallModel
    \/ Publish
    \/ Finish

Spec == Init /\ [][Next]_vars

-----------------------------------------------------------------------------
(* read_sources on every file content up to MaxFileLen characters *)

InitSources ==
    /\ InitWith("read_sources", AllSet, 12, 4)

ReadAnySources == ReadSourcesFrom(AllContents)

SpecSources == InitSources /\ [][ReadAnySources]_vars

(* fetch_rss_items on two feeds, each returning any of AllFeedResults *)

InitFetch ==
    /\ pc = "fetch_rss_items"
    /\ environ = AllSet
    /\ MAX_ARTICLES = 12
    /\ MAX_THEMES = 4
    /\ fileContent = UrlLines(2)
    /\ fileReads = 1
    /\ feeds = read_sources(UrlLines(2))
    /\ parsed = <<>>
    /\ raised = {}
    /\ items = <<>>
    /\ deduped = <<>>
    /\ selected = <<>>
    /\ modelCalls = <<>>
    /\ digest = [as_of |-> "", themes |-> <<>>]
    /\ posts = <<>>
    /\ rows = <<>>
    /\ created = 0
    /\ stdout = <<>>
    /\ error = NoError
    /\ exitCode = 0

FetchAnyFeed == FetchFeedFrom(AllFeedResults)

NextFetch == FeedFailure \/ FetchAnyFeed \/ FetchReturn

SpecFetch == InitFetch /\ [][NextFetch]_vars

(* pick_top_items on every item sequence up to MaxPickLen and every cap *)
(* from -MaxCap to MaxCap                                               *)

InitPick ==
    /\ pc = "pick_top_items"
    /\ environ = AllSet
    /\ MAX_ARTICLES \in (-MaxCap)..MaxCap
    /\ MAX_THEMES = 4
    /\ fileContent = <<>>
    /\ fileReads = 0
    /\ feeds = <<>>
    /\ parsed = <<>>
    /\ raised = {}
    /\ items = <<>>
    /\ deduped \in SeqsUpTo(PickItems, MaxPickLen)
    /\ selected = <<>>
    /\ modelCalls = <<>>
    /\ digest = [as_of |-> "", themes |-> <<>>]
    /\ posts = <<>>
    /\ rows = <<>>
    /\ created = 0
    /\ stdout = <<>>
    /\ error = NoError
    /\ exitCode = 0

Pick ==
    /\ pc = "pick_top_items"
    /\ selected' = pick_top_items(deduped, MAX_ARTICLES)
    /\ pc' = "picked"
    /\ UNCHANGED <<environ, MAX_ARTICLES, MAX_THEMES, fileContent, fileReads,
                   feeds, parsed, raised, items, deduped, modelCalls, digest, posts,
                   rows, created, stdout, error, exitCode>>

SpecPick == InitPick /\ [][Pick]_vars

-----------------------------------------------------------------------------
(* Properties: read_sources (checked under SpecSources) *)

SourcesReturned == pc = "fetch_rss_items"

\* a line as the property reads it: trimmed, non-blank, no comment marker
LineKept(line) ==
    LET t == Strip(line) IN t # <<>> /\ t[1] # 35

KeptLines == {i \in DOMAIN FileLines(fileContent) :
                 LineKept(FileLines(fileContent)[i])}

\* C9: read_sources returns exactly the trimmed lines that are non-blank and
\* do not start with '#' after trimming, in file order, duplicates retained;
\* no blank line and no comment line is among the returned URLs.
C9_ReadSources ==
    SourcesReturned =>
        /\ Len(feeds) = Cardinality(KeptLines)
        /\ \A i \in KeptLines :
             feeds[Cardinality({j \in KeptLines : j <= i})]
                = Strip(FileLines(fileContent)[i])
        /\ \A k \in DOMAIN feeds :
             /\ feeds[k] # <<>>
             /\ feeds[k][1] \notin Whitespace \cup {35}
             /\ feeds[k][Len(feeds[k])] \notin Whitespace

\* "u\r\f#\nu": the line ended by "\r" is read, the comment line after a
\* leading "\f" is dropped, the same URL on two lines is returned twice
C9_Witness ==
    /\ SourcesReturned
    /\ fileContent = <<117, 13, 12, 35, 10, 117>>
    /\ feeds = <<U1, U1>>

-----------------------------------------------------------------------------
(* Properties: pick_top_items (checked under SpecPick) *)

\* C8 as stated: for every cap K the result has length min(N, K) and is the
\* first K items of the input in their order.
C8_AsStated ==
    pc = "picked" =>
        /\ Len(selected) = Min(Len(deduped), MAX_ARTICLES)
        /\ \A i \in DOMAIN selected : selected[i] = deduped[i]

\* C8: pick_top_items returns a prefix of its input; its length is min(N, K)
\* for a cap K >= 0 and max(0, N + K) for a cap K < 0.
C8_PickTopItems ==
    pc = "picked" =>
        /\ Len(selected) =
             IF MAX_ARTICLES >= 0 THEN Min(Len(deduped), MAX_ARTICLES)
             ELSE Max(0, Len(deduped) + MAX_ARTICLES)
        /\ \A i \in DOMAIN selected : selected[i] = deduped[i]

C8_Witness ==
    /\ pc = "picked"
    /\ MAX_ARTICLES = 2
    /\ deduped = <<ItemOf(U1, EaT), ItemOf(U1, EbT), ItemOf(U2, EaS)>>
    /\ selected = <<ItemOf(U1, EaT), ItemOf(U1, EbT)>>

-----------------------------------------------------------------------------
(* Properties: fetch_rss_items (checked under SpecFetch) *)

\* fetch_rss_items has returned to main
FetchReturned ==
    \/ pc \in {"call_model", "publish"}
    \/ /\ pc = "exited"
       /\ error.type \notin {"SystemExit", "FileNotFoundError", "FeedError"}

\* <<feed, entry>> positions among the first 25 entries of each feed
Positions ==
    {p \in (DOMAIN parsed) \X (1..EntryCap) : p[2] <= Len(parsed[p[1]])}

EntryAt(p) == parsed[p[1]][p[2]]

Before(p, q) == p[1] < q[1] \/ (p[1] = q[1] /\ p[2] < q[2])

Blank(s) == \A k \in DOMAIN s : s[k] \in Whitespace

\* C7 as stated: link absent, or title absent or empty after trimming
RejectedAsStated(e) ==
    \/ "link" \notin DOMAIN e
    \/ "title" \notin DOMAIN e
    \/ Blank(e.title)

\* link absent or empty, or title absent or empty after trimming
Rejected(e) ==
    \/ "link" \notin DOMAIN e
    \/ e.link = ""
    \/ "title" \notin DOMAIN e
    \/ Blank(e.title)

\* the FeedItem an entry is expected to give
ItemAt(p) ==
    [source_feed |-> feeds[p[1]],
     title |-> Strip(EntryAt(p).title),
     link |-> EntryAt(p).link]

\* the items before deduplication are the items of the positions in S, in
\* feed order then entry order, and nothing of another position is returned
AcceptedAre(S) ==
    /\ Len(items) = Cardinality(S)
    /\ \A p \in S :
         items[Cardinality({q \in S : q = p \/ Before(q, p)})] = ItemAt(p)
    /\ \A k \in DOMAIN deduped : \E p \in S : deduped[k] = ItemAt(p)
    /\ \A p \in S : \E k \in DOMAIN deduped : deduped[k].link = EntryAt(p).link

\* C7 as stated: among the first 25 entries of a feed, exactly those with an
\* absent link, or an absent or blank title, are left out.
C7_AsStated ==
    FetchReturned =>
        AcceptedAre({p \in Positions : ~RejectedAsStated(EntryAt(p))})

\* C7: among the first 25 entries of a feed, an entry whose link is absent or
\* empty, or whose title is absent or empty after trimming, never appears in
\* the returned sequence and takes no part in deduplication; every other
\* entry among the first 25 is accepted before deduplication.
C7_EntriesFiltered ==
    FetchReturned =>
        AcceptedAre({p \in Positions : ~Rejected(EntryAt(p))})

\* a blank-title entry does not hide the later entry with the same link, and
\* of a long feed the 25th entry is read and the 26th is not
C7_Witness ==
    /\ FetchReturned
    /\ parsed = <<<<EbBlank, EbT>>,
                  Repeat(<<Filler>>, EntryCap - 1) \o <<EaS, EaT>>>>
    /\ deduped = <<ItemOf(U1, EbT), ItemOf(U2, Filler), ItemOf(U2, EaS)>>

Accepted == {p \in Positions : ~Rejected(EntryAt(p))}

\* p is the first accepted position with its link
FirstOfLink(p) ==
    \A q \in Accepted :
        EntryAt(q).link = EntryAt(p).link => (q = p \/ Before(p, q))

FirstPos(link) ==
    CHOOSE p \in Accepted : EntryAt(p).link = link /\ FirstOfLink(p)

\* C6: the output of fetch_rss_items holds no two items with the same link;
\* for each link among the accepted entries the surviving item is the first
\* one encountered in feed order then entry order; the surviving items are
\* in the order of their first encounter.
C6_Deduplicated ==
    FetchReturned =>
        /\ \A a, b \in DOMAIN deduped :
             a # b => deduped[a].link # deduped[b].link
        /\ \A p \in Accepted :
             FirstOfLink(p) => \E k \in DOMAIN deduped : deduped[k] = ItemAt(p)
        /\ \A k \in DOMAIN deduped :
             \E p \in Accepted : FirstOfLink(p) /\ deduped[k] = ItemAt(p)
        /\ \A a, b \in DOMAIN deduped :
             a < b =>
                Before(FirstPos(deduped[a].link), FirstPos(deduped[b].link))

\* the feeds [[a:T, b:blank], [a:S, b:T]] give [a:T, b:T]
C6_Witness ==
    /\ FetchReturned
    /\ parsed = <<<<EaT, EbBlank>>, <<EaS, EbT>>>>
    /\ deduped = <<ItemOf(U1, EaT), ItemOf(U2, EbT)>>

-----------------------------------------------------------------------------
(* Properties of a run (checked under Spec) *)

Aborted == pc = "exited" /\ exitCode # 0

CreatedPrinted == \E k \in DOMAIN stdout : stdout[k].text = "Created"

\* the model endpoint has answered and json.loads has parsed the answer
ModelReturned ==
    /\ modelCalls # <<>>
    /\ \/ pc = "publish"
       \/ pc = "exited" /\ error.type \notin {"APIError", "JSONDecodeError"}

\* C1: a digest whose themes array has more than MAX_THEMES entries is
\* treated as invalid: the run aborts with an error and no create-row request
\* is issued for any of its themes.
C1_OversizedDigestFails ==
    Len(digest.themes) > MAX_THEMES =>
        /\ Aborted
        /\ posts = <<>>
        /\ rows = <<>>
        /\ ~CreatedPrinted

\* C2: if the k-th create-row request is answered with a status >= 300, the
\* run aborts with a runtime error and a non-zero exit, exactly the k-1
\* earlier rows exist, no request is sent for the themes after the k-th, the
\* failed request is not sent again, and the 'Created' line is not printed.
C2_PublishFailureAborts ==
    \A k \in DOMAIN posts :
        (posts[k].answered /\ posts[k].status >= 300) =>
            /\ Aborted
            /\ error = [type |-> "RuntimeError", status |-> posts[k].status]
            /\ rows = SubSeq(digest.themes, 1, k - 1)
            /\ created = k - 1
            /\ Len(posts) = k
            /\ \A j \in DOMAIN posts : posts[j].theme = digest.themes[j]
            /\ ~CreatedPrinted

\* the second of three themes is answered 400
C2_Witness ==
    /\ Len(digest.themes) = 3
    /\ Len(posts) = 2
    /\ posts[2].answered /\ posts[2].status = 400
    /\ rows = <<1>>
    /\ Aborted

\* C3: when fetch_rss_items returns no item, main prints the fixed message
\* and ends with exit code zero without a model call or a create-row request.
C3_NoItemsExit ==
    (FetchReturned /\ deduped = <<>>) =>
        /\ pc = "exited"
        /\ exitCode = 0
        /\ error = NoError
        /\ stdout = <<NoItemsLine>>
        /\ modelCalls = <<>>
        /\ posts = <<>>
        /\ rows = <<>>

\* two feeds were fetched and every entry was filtered out
C3_Witness ==
    /\ FetchReturned
    /\ Len(feeds) = 2
    /\ parsed = <<<<>>, <<EbBlank, ENoLink>>>>
    /\ deduped = <<>>
    /\ pc = "exited"
    /\ stdout = <<NoItemsLine>>

SecretMissing ==
    \E n \in SecretNames : n \notin DOMAIN environ \/ environ[n] = ""

\* C4: with a required secret absent or empty the process ends at once with
\* a non-zero exit and the message naming the secrets, and no source file
\* read, feed fetch, model call or database write occurs.
C4_MissingSecretExits ==
    SecretMissing =>
        /\ \/ pc = "import"
           \/ Aborted /\ error = MissingSecrets
        /\ fileReads = 0
        /\ parsed = <<>>
        /\ modelCalls = <<>>
        /\ posts = <<>>
        /\ rows = <<>>
        /\ stdout = <<>>

\* one secret is set to the empty string, the other two are set
C4_Witness ==
    /\ environ = [AllSet EXCEPT !["NOTION_TOKEN"] = ""]
    /\ Aborted
    /\ error = MissingSecrets

\* C5: when fetching or parsing a feed fails, the run aborts with a non-zero
\* exit, the items collected from earlier feeds are not returned, no later
\* feed is fetched, and no model call or create-row request is issued.
C5_FeedFailureAborts ==
    raised # {} =>
        /\ Aborted
        /\ error = [type |-> "FeedError", feed |-> Len(parsed)]
        /\ raised = {Len(parsed)}
        /\ deduped = <<>>
        /\ selected = <<>>
        /\ modelCalls = <<>>
        /\ posts = <<>>
        /\ rows = <<>>
        /\ stdout = <<>>

\* the second of two feeds fails after the first gave two items
C5_Witness ==
    /\ Len(feeds) = 2
    /\ raised = {2}
    /\ Len(items) = 2
    /\ Aborted

\* at most one model call, made after every feed was fetched, and every
\* create-row request made after that call returned
ModelCallOrdered ==
    /\ Len(modelCalls) <= 1
    /\ modelCalls # <<>> =>
         /\ Len(parsed) = Len(feeds)
         /\ raised = {}
         /\ FetchReturned
         /\ modelCalls[1] = selected
    /\ posts # <<>> => ModelReturned

\* C10: for every integer MAX_ARTICLES the model endpoint is called at most
\* once, only after all feeds have been fetched, with a non-empty item
\* sequence, and every create-row request happens after that call returned.
C10_ModelCallNonEmpty ==
    /\ ModelCallOrdered
    /\ \A k \in DOMAIN modelCalls : modelCalls[k] # <<>>

====
